---- MODULE Spec2Model ----
(***************************************************************************)
(* State-machine model of the daily-briefing content pipeline:             *)
(*   - limit_content_by_tokens and get_content (content/content_manager.py)*)
(*   - get_content_collection_timeframe (utils/api_utils.py) and the       *)
(*     adapters that call it                                               *)
(*   - get_fast_email_content (content/email_content.py)                   *)
(*   - main (main.py) and call_api_with_backoff (utils/api_utils.py)       *)
(*   - the feed and sitemap adapters (content/rss_content.py,              *)
(*     content/sitemap_content.py)                                         *)
(*   - send_email (utils/email_utils.py)                                   *)
(*   - get_tavily_content (content/tavily_content.py)                      *)
(*   - generate_stability_images (main.py) and generate_email_html         *)
(*     (utils/html_utils.py)                                               *)
(*   - call_claude_parse_with_backoff (utils/api_utils.py)                 *)
(*                                                                         *)
(* Strings are modelled by their length (the token estimate only reads     *)
(* the length).  Python dicts are heap objects: `items` maps an object id  *)
(* to the dict's fields, and every list holds ids, as a Python list holds  *)
(* references.  Local wall-clock time is counted in whole hours from a     *)
(* Monday 00:00 in the configured timezone.                                *)
(***************************************************************************)
EXTENDS Integers, Sequences, FiniteSets, TLC

VARIABLES
    mode,             \* which operation this behaviour exercises
    items,            \* heap: object id -> item dict
    items0,           \* the heap as it was when limit_content_by_tokens was called
    content_list,     \* the caller's list handed to limit_content_by_tokens
    max_tokens,       \* the token budget
    content,          \* the list limit_content_by_tokens returns
    lim_pc,           \* "call" before the call, "done" after it, "again" after a second
    content_again,    \* the list a second call, on the first call's result, returns
    items_first,      \* the heap as the first call left it
    now,              \* the wall clock: hours since a Monday 00:00, local time
    ticks,            \* hours the clock advanced since the run began
    calls,            \* the windows resolved so far in this run, in call order
    tav_pc,           \* get_tavily_content: "idle", or "window" between its two calls
    title,            \* the section title given to get_content
    feed,             \* per adapter: whether its source can be read, and its entries
    adapter_ret,      \* what each adapter called by get_content returned
    limited_content,  \* get_content's limited_content
    all_content,      \* the list get_content returns
    raised,           \* get_content ended by an exception
    agg_pc,           \* "call" before get_content, "done" after
    mailbox,          \* the messages the IMAP search matches, in id order
    conn_fault,       \* the connection-level step that fails, or "none"
    conn,             \* the IMAP connection: "none", "open" or "closed"
    mail_window,      \* get_fast_email_content's (start_time, end_time)
    mail_i,           \* the index of the next email_id to process
    emails_content,   \* get_fast_email_content's emails_content (message indexes)
    mail_ret,         \* the list get_fast_email_content returned
    mail_pc,          \* "open", "search", "loop", "done"
    sections,         \* main: the titles of the configured SECTIONS, in order
    sec_i,            \* main: the index of the section being processed
    all_news_items,   \* main: the topic of every news item collected so far
    llm_failed,       \* main: the topics whose LLM call exhausted its retries
    newsletter,       \* main: the HTML body: "none", "full", "degraded", "fallback"
    send_calls,       \* main: the bodies send_email was invoked with, in order
    block_outcome,    \* main: how the newsletter block ended: "none", "no_items", "full",
                      \*       "degraded", "raise"
    email_subject,    \* main: "unset", "custom", or "none" for None
    main_image_paths, \* main: its image_paths: "unset", "generated", or "empty" for {}
    main_pc,          \* main: "content", "llm", "newsletter", "charts", "send",
                      \*       "returned", "raised"
    max_retries,      \* call_api_with_backoff: its max_retries argument
    initial_retry_delay, \* its initial_retry_delay argument, in seconds
    max_retry_delay,  \* its max_retry_delay argument, in seconds
    retry_count,      \* its retry_count
    attempts,         \* the outcome of every api_call() invocation, in order
    jitter,           \* the jitter drawn in the current attempt, in tenths
    sleeps,           \* every time.sleep made: after which attempt, how long (tenths of a second)
    backoff_pc,       \* "loop", "returned", "raised", "exceeded"
    src_adapter,      \* which source adapter is called
    src_entries,      \* the timestamps of the entries its feed or sitemap lists
    src_ret,          \* the timestamps of the entries it returns
    src_pc,           \* "call" before the call, "done" after
    send_to_everyone, \* send_email: whether --send-to-everyone is in sys.argv
    RECIPIENT_EMAILS, \* the configured recipient list
    smtp_fault,       \* the step of send_email that raises, or "none"
    smtp_steps,       \* the steps of send_email performed so far, in order
    sendmail_calls,   \* the envelope recipients of every server.sendmail call
    send_ret,         \* what send_email returned: "none", "True" or "False"
    send_pc,          \* "build", "connect", ..., "quit", "returned", "raised", "main_done"
    tav_stream,       \* get_tavily_content: what the search API answers, query after query
    tav_pos,          \* the index in tav_stream where the next query's answer begins
    tav_days,         \* its days
    tav_window,       \* its (start_time, end_time)
    seen_urls,        \* its seen_urls
    tav_results,      \* its results
    tav_call_pc,      \* "open", "loop", "returned"
    newsletter_elements, \* the ContentElement list: each element's type and content
    gen_fails,        \* the elements whose image generation raises in this run
    image_paths,      \* generate_stability_images' image_paths: the image ids it holds
    html_imgs,        \* the <img src="cid:..."> tags of the rendered HTML: element, cid
    render_pc,        \* "images", "html", "done"
    response_kind,    \* call_claude_parse_with_backoff: what the response's text is
    parse_pc          \* "call", "returned", "raised"

lim_vars == <<items, items0, content_list, max_tokens, content, lim_pc,
              content_again, items_first>>
time_vars == <<now, ticks, calls, tav_pc>>
mail_vars == <<mailbox, conn_fault, conn, mail_window, mail_i, emails_content, mail_ret, mail_pc>>
agg_vars == <<title, feed, adapter_ret, limited_content, all_content, raised, agg_pc>>
main_vars == <<sections, sec_i, all_news_items, llm_failed, newsletter, send_calls, main_pc,
               block_outcome, email_subject, main_image_paths>>
backoff_vars == <<max_retries, initial_retry_delay, max_retry_delay, retry_count,
                  attempts, jitter, sleeps, backoff_pc>>
source_vars == <<src_adapter, src_entries, src_ret, src_pc>>
send_vars == <<send_to_everyone, RECIPIENT_EMAILS, smtp_fault, smtp_steps, sendmail_calls,
               send_ret, send_pc>>
tavily_vars == <<tav_stream, tav_pos, tav_days, tav_window, seen_urls, tav_results, tav_call_pc>>
render_vars == <<newsletter_elements, gen_fails, image_paths, html_imgs, render_pc>>
parse_vars == <<response_kind, parse_pc>>

(***************************************************************************)
(* Bounds of the model                                                     *)
(***************************************************************************)
MaxItems == 3      \* items in one collection
MaxT == 3          \* distinct values of the "datetime" field
MaxLen == 12       \* longest serialized item, in characters
MaxBudget == 4     \* largest token budget tried
MaxTicks == 2      \* hours the clock may advance during one run
MaxCalls == 3      \* window resolutions recorded in one run
MaxMsgs == 2       \* messages the IMAP search matches
MaxParts == 2      \* text/plain parts of one message
MaxSections == 3   \* sections of a shortened section list
MaxRetries == 4    \* largest max_retries tried
MaxInitialDelay == 2 \* largest initial_retry_delay tried, in seconds
SmallRetryDelay == 3 \* a max_retry_delay that the third delay reaches, in seconds

(***************************************************************************)
(* Program constants                                                       *)
(***************************************************************************)
CharsPerToken == 4
CutoffHour == 6
HoursPerDay == 24
DaysPerWeek == 7
MAX_RETRY_DELAY == 60
JitterLow == 8       \* random.uniform(0.8, 1.2), in tenths
JitterHigh == 12
JitterScale == 10
DstShift == 2        \* the hour the clocks go back, in time units of the items
LookbackHours == 24
EaLookbackHours == 48

ItemIds == 1..MaxItems
\* lengths of json.dumps(item): one below a token boundary, on it, and the longest
Lens == {2 * CharsPerToken - 1, 2 * CharsPerToken, MaxLen}

\* the UTC offsets of the configured timezone, relative to its summer offset:
\* 0 while daylight-saving time lasts, DstShift time units less after it
Offsets == {0, 0 - DstShift}

\* An item dict.  dt: the instant its "datetime" value denotes (0 for a dict
\* without the key); off: the UTC offset the value is written with; rep: how
\* the key is held ("none": no key, "str": an ISO string, "obj": an aware
\* datetime object); len: the length of json.dumps of the item with its
\* datetime in ISO form; kind: "email" when the dict has a "subject" key,
\* "article" when it has a "url" key.
ItemRec == [dt : 0..MaxT, off : Offsets, rep : {"none", "str", "obj"}, len : Lens,
            kind : {"email", "article"}]

NoItem == [dt |-> 0, off |-> 0, rep |-> "none", len |-> 2 * CharsPerToken,
           kind |-> "article"]

Range(s) == {s[i] : i \in 1..Len(s)}

\* num_tokens_from_string: len(string) // 4
num_tokens_from_string(len) == len \div CharsPerToken

\* serialize_for_token_count(item): json.dumps of a copy of the item whose
\* datetime object, if any, is replaced by its ISO string (its length)
serialize_for_token_count(it) == it.len

\* the rank of datetime.isoformat() among strings: the local wall-clock time
\* dt + off is written first and the offset last ("-04:00" before "-05:00");
\* 0 for the default "", which sorts before every ISO string
IsoKey(it) ==
    IF it.rep = "none" THEN 0
    ELSE 2 * (it.dt + it.off + DstShift) + (IF it.off < 0 THEN 1 ELSE 0) + 1

\* the sort key: x.get("datetime", ""); aware datetime objects compare by the
\* instant, strings by their characters
DatetimeKey(it) == IF it.rep = "obj" THEN it.dt ELSE IsoKey(it)

RECURSIVE InsertSorted(_, _, _)
InsertSorted(s, x, h) ==
    IF s = <<>> THEN <<x>>
    ELSE IF DatetimeKey(h[Head(s)]) <= DatetimeKey(h[x])
         THEN <<Head(s)>> \o InsertSorted(Tail(s), x, h)
         ELSE <<x>> \o s

\* list.sort(key=...): ascending and stable
RECURSIVE SortStable(_, _)
SortStable(s, h) ==
    IF s = <<>> THEN <<>>
    ELSE InsertSorted(SortStable(SubSeq(s, 1, Len(s) - 1), h), s[Len(s)], h)

\* a limiter that forgets to sort
SortByDatetimeUnsorted(s, h) == s

\* content.sort(key=lambda x: x.get("datetime", ""))
SortByDatetime(s, h) == SortStable(s, h)

\* sum(num_tokens_from_string(serialize_for_token_count(item)) for item in content)
RECURSIVE TotalTokens(_, _)
TotalTokens(s, h) ==
    IF s = <<>> THEN 0
    ELSE num_tokens_from_string(serialize_for_token_count(h[Head(s)]))
         + TotalTokens(Tail(s), h)

\* a loop that also evicts the last item
OverLimitAny(total, mx, n) == total > mx /\ n > 0

\* the loop condition: total_tokens > max_tokens and len(content) > 1
OverLimit(total, mx, n) == total > mx /\ n > 1

\* the eviction loop: content.pop(0) and a recount, while over the limit
RECURSIVE Evict(_, _, _)
Evict(s, h, mx) ==
    IF OverLimit(TotalTokens(s, h), mx, Len(s)) THEN Evict(Tail(s), h, mx) ELSE s

\* the final loop: item["datetime"] = item["datetime"].isoformat() on the
\* dicts of the returned list, which are the caller's dicts
ConvertDatetimes(s, h) ==
    [id \in DOMAIN h |->
        IF id \in Range(s) /\ h[id].rep = "obj"
        THEN [h[id] EXCEPT !.rep = "str"] ELSE h[id]]

\* limit_content_by_tokens(content_list, max_tokens, _): the returned list and
\* the heap after the call
LimitContentByTokens(cl, h, mx) ==
    IF cl = <<>> THEN [content |-> cl, items |-> h]
    ELSE LET kept == Evict(SortByDatetime(cl, h), h, mx)
         IN  [content |-> kept, items |-> ConvertDatetimes(kept, h)]

Adapters == {"gq", "veg", "fast", "ea", "rundown"}
NoFeed == [cond |-> "ok", entries |-> <<>>]
NotCalled == [tag |-> "not_called", val |-> <<>>]

(***************************************************************************)
(* Values of the variables an operation does not use                       *)
(***************************************************************************)
LimitIdle ==
    /\ items = [id \in ItemIds |-> NoItem]
    /\ items0 = items
    /\ content_list = <<>>
    /\ max_tokens = 0
    /\ content = <<>>
    /\ lim_pc = "idle"
    /\ content_again = <<>>
    /\ items_first = items

TimeIdle ==
    /\ now = 0
    /\ ticks = 0
    /\ calls = <<>>
    /\ tav_pc = "idle"

ContentIdle ==
    /\ title = ""
    /\ feed = [a \in Adapters |-> NoFeed]
    /\ adapter_ret = [a \in Adapters |-> NotCalled]
    /\ limited_content = <<>>
    /\ all_content = <<>>
    /\ raised = FALSE
    /\ agg_pc = "idle"

NoWindow == [start |-> 0, end |-> 0]

MailIdle ==
    /\ mailbox = <<>>
    /\ conn_fault = "none"
    /\ conn = "none"
    /\ mail_window = NoWindow
    /\ mail_i = 1
    /\ emails_content = <<>>
    /\ mail_ret = <<>>
    /\ mail_pc = "idle"

MainIdle ==
    /\ sections = <<>>
    /\ sec_i = 1
    /\ all_news_items = <<>>
    /\ llm_failed = {}
    /\ newsletter = "none"
    /\ send_calls = <<>>
    /\ main_pc = "idle"
    /\ block_outcome = "none"
    /\ email_subject = "unset"
    /\ main_image_paths = "unset"

BackoffIdle ==
    /\ max_retries = 0
    /\ initial_retry_delay = 0
    /\ max_retry_delay = 0
    /\ retry_count = 0
    /\ attempts = <<>>
    /\ jitter = 0
    /\ sleeps = <<>>
    /\ backoff_pc = "idle"

SourceIdle ==
    /\ src_adapter = "none"
    /\ src_entries = {}
    /\ src_ret = {}
    /\ src_pc = "idle"

SendIdle ==
    /\ send_to_everyone = FALSE
    /\ RECIPIENT_EMAILS = <<>>
    /\ smtp_fault = "none"
    /\ smtp_steps = <<>>
    /\ sendmail_calls = <<>>
    /\ send_ret = "none"
    /\ send_pc = "idle"

TavilyIdle ==
    /\ tav_stream = <<>>
    /\ tav_pos = 1
    /\ tav_days = 0
    /\ tav_window = [start |-> 0, end |-> 0]
    /\ seen_urls = {}
    /\ tav_results = <<>>
    /\ tav_call_pc = "idle"

RenderIdle ==
    /\ newsletter_elements = <<>>
    /\ gen_fails = {}
    /\ image_paths = {}
    /\ html_imgs = <<>>
    /\ render_pc = "idle"

ParseIdle ==
    /\ response_kind = "none"
    /\ parse_pc = "idle"

(***************************************************************************)
(* The limiter on its own: every collection of up to MaxItems items whose  *)
(* datetime values are comparable (all datetime objects, or all strings    *)
(* and missing keys), and every budget.                                    *)
(***************************************************************************)
\* all datetime objects
ObjItems == {it \in ItemRec :
                it.kind = "article" /\ it.rep = "obj" /\ it.dt >= 1 /\ it.off = 0}

\* ISO strings and dicts without the key
StrItems == {it \in ItemRec :
                /\ it.kind = "article"
                /\ it.rep = (IF it.dt = 0 THEN "none" ELSE "str")
                /\ it.off = 0}

\* the instants from which the timezone is on winter time: the last instant
\* of the range, or none of it
DstEnds == {MaxT, MaxT + 1}

\* the item written with the offset its instant has when summer time ends at chg
AtOffset(it, chg) ==
    [it EXCEPT !.off = IF it.rep # "none" /\ it.dt >= chg THEN 0 - DstShift ELSE 0]

\* the arguments of one call: a collection of up to MaxItems items, written
\* with the offsets of a timezone whose summer time ends at one of ends, and
\* a budget
LimitInputs(ends) ==
    /\ \E n \in 0..MaxItems, S \in {ObjItems, StrItems}, chg \in ends :
          \E f \in [1..n -> S] :
             /\ content_list = [i \in 1..n |-> i]
             /\ items = [id \in ItemIds |->
                            IF id <= n THEN AtOffset(f[id], chg) ELSE NoItem]
    /\ items0 = items
    /\ max_tokens \in 0..MaxBudget
    /\ content = <<>>
    /\ lim_pc = "call"
    /\ content_again = <<>>
    /\ items_first = items
    /\ TimeIdle
    /\ ContentIdle
    /\ MailIdle
    /\ MainIdle
    /\ BackoffIdle
    /\ SourceIdle
    /\ SendIdle
    /\ TavilyIdle
    /\ RenderIdle
    /\ ParseIdle

\* one call, on items of one UTC offset
InitLimit ==
    /\ mode = "limit"
    /\ LimitInputs({MaxT + 1})

\* one call followed by a second on its result; summer time may end between
\* the instants of the items
InitRelimit ==
    /\ mode = "relimit"
    /\ LimitInputs(DstEnds)

limit_content_by_tokens ==
    /\ mode \in {"limit", "relimit"}
    /\ lim_pc = "call"
    /\ LET r == LimitContentByTokens(content_list, items, max_tokens)
       IN  /\ content' = r.content
           /\ items' = r.items
    /\ lim_pc' = "done"
    /\ UNCHANGED <<mode, items0, content_list, max_tokens, content_again, items_first>>
    /\ UNCHANGED <<time_vars, agg_vars, mail_vars, main_vars, backoff_vars, source_vars,
                   send_vars, tavily_vars, render_vars, parse_vars>>

\* limit_content_by_tokens(content, max_tokens, _) called on the first call's
\* result, with the same budget
limit_again ==
    /\ mode = "relimit"
    /\ lim_pc = "done"
    /\ LET r == LimitContentByTokens(content, items, max_tokens)
       IN  /\ content_again' = r.content
           /\ items' = r.items
    /\ items_first' = items
    /\ lim_pc' = "again"
    /\ UNCHANGED <<mode, items0, content_list, max_tokens, content>>
    /\ UNCHANGED <<time_vars, agg_vars, mail_vars, main_vars, backoff_vars, source_vars,
                   send_vars, tavily_vars, render_vars, parse_vars>>

(***************************************************************************)
(* Properties of limit_content_by_tokens                                   *)
(***************************************************************************)
InputIds == Range(content_list)

DistinctTimestamps ==
    \A a, b \in InputIds : a # b => DatetimeKey(items0[a]) # DatetimeKey(items0[b])

\* the k items of S with the largest datetime values
NewestK(S, k) ==
    {a \in S : Cardinality({b \in S : DatetimeKey(items0[b]) > DatetimeKey(items0[a])}) < k}

RECURSIVE SumTokens(_)
SumTokens(S) ==
    IF S = {} THEN 0
    ELSE LET a == CHOOSE x \in S : TRUE
         IN  num_tokens_from_string(serialize_for_token_count(items0[a]))
             + SumTokens(S \ {a})

\* the largest number of newest items whose token total fits, 1 when none does
FitCount ==
    LET ks == {k \in 1..Len(content_list) : SumTokens(NewestK(InputIds, k)) <= max_tokens}
    IN  IF ks = {} THEN 1 ELSE CHOOSE k \in ks : \A j \in ks : j <= k

\* C1: a non-empty input never yields an empty result, whatever the budget:
\* the last remaining item is not evicted even when it alone exceeds the budget.
C1_NeverEmpties ==
    (lim_pc = "done" /\ content_list # <<>>) => Len(content) >= 1

\* the last item alone exceeds the budget and is still returned
C1_Witness ==
    /\ lim_pc = "done"
    /\ Len(content_list) >= 2
    /\ Len(content) = 1
    /\ TotalTokens(content, items) > max_tokens

RECURSIVE SumLen(_, _)
SumLen(s, h) ==
    IF s = <<>> THEN 0 ELSE serialize_for_token_count(h[Head(s)]) + SumLen(Tail(s), h)

SerializeCollection(s, h) ==
    IF s = <<>> THEN 2 ELSE 2 + SumLen(s, h) + 2 * (Len(s) - 1)

\* C3: when the newest item serialized alone fits the budget, the token
\* estimate of the serialization of the whole returned collection (one payload,
\* its punctuation counted once) is within the budget.
C3_PayloadWithinBudget ==
    (/\ lim_pc = "done"
     /\ content_list # <<>>
     /\ num_tokens_from_string(
            SerializeCollection(<<content[Len(content)]>>, items)) <= max_tokens)
    => num_tokens_from_string(SerializeCollection(content, items)) <= max_tokens

\* C5: the call leaves the caller's list and every field of every item as
\* they were before the call.
C5_InputUnchanged ==
    lim_pc = "done" =>
        /\ content_list = [i \in 1..Len(content_list) |-> i]
        /\ items = items0

\* C19: applying the limiter, with the same budget, to its own output returns
\* a collection equal to that output: same items, same order, same field values.
C19_Idempotent ==
    lim_pc = "again" =>
        /\ content_again = content
        /\ items = items_first

\* C20: when the token count of the collection equals the budget exactly, no
\* item is evicted and every returned item equals the input item it was.
C20_UnmodifiedAtEquality ==
    (lim_pc = "done" /\ TotalTokens(content_list, items0) = max_tokens) =>
        /\ Len(content) = Len(content_list)
        /\ Range(content) = InputIds
        /\ \A id \in InputIds : items[id] = items0[id]

(***************************************************************************)
(* The collection window                                                   *)
(***************************************************************************)
\* now.weekday(): 0 = Monday .. 6 = Sunday
weekday(t) == (t \div HoursPerDay) % DaysPerWeek

\* a table that sends Monday back two days only
days_to_friday_short(wd) == CASE wd = 0 -> 2 [] wd = 5 -> 1 [] wd = 6 -> 2

\* the days_to_friday table
days_to_friday(wd) == CASE wd = 0 -> 3 [] wd = 5 -> 1 [] wd = 6 -> 2

\* get_content_collection_timeframe() read at wall-clock time t
get_content_collection_timeframe(t) ==
    LET end_datetime == (t \div HoursPerDay) * HoursPerDay + CutoffHour
        start_datetime ==
            IF weekday(t) \in {0, 5, 6}
            THEN end_datetime - days_to_friday(weekday(t)) * HoursPerDay
            ELSE end_datetime - HoursPerDay
    IN  [start |-> start_datetime, end |-> end_datetime]

\* _get_search_days(): the span in whole days, rounded up, at least 1
get_search_days(t) ==
    LET w == get_content_collection_timeframe(t)
        delta == w.end - w.start
        days == delta \div HoursPerDay + (IF delta % HoursPerDay > 0 THEN 1 ELSE 0)
    IN  IF days > 1 THEN days ELSE 1

Resolve(who) ==
    LET w == get_content_collection_timeframe(now)
    IN  [who |-> who, at |-> now, start |-> w.start, end |-> w.end]

InitTime ==
    /\ mode = "run"
    /\ now \in (DaysPerWeek * HoursPerDay)..(2 * DaysPerWeek * HoursPerDay - 1)
    /\ ticks = 0
    /\ calls = <<>>
    /\ tav_pc = "idle"
    /\ LimitIdle
    /\ ContentIdle
    /\ MailIdle
    /\ MainIdle
    /\ BackoffIdle
    /\ SourceIdle
    /\ SendIdle
    /\ TavilyIdle
    /\ RenderIdle
    /\ ParseIdle

\* wall-clock time passes while the run's blocking calls are under way
Tick ==
    /\ mode = "run"
    /\ ticks < MaxTicks
    /\ now' = now + 1
    /\ ticks' = ticks + 1
    /\ UNCHANGED <<mode, calls, tav_pc>>
    /\ UNCHANGED <<lim_vars, agg_vars, mail_vars, main_vars, backoff_vars, source_vars,
                   send_vars, tavily_vars, render_vars, parse_vars>>

\* get_fast_email_content resolves its window on entry
EmailResolvesWindow ==
    /\ mode = "run"
    /\ tav_pc = "idle"
    /\ Len(calls) < MaxCalls
    /\ calls' = Append(calls, Resolve("email"))
    /\ UNCHANGED <<mode, now, ticks, tav_pc>>
    /\ UNCHANGED <<lim_vars, agg_vars, mail_vars, main_vars, backoff_vars, source_vars,
                   send_vars, tavily_vars, render_vars, parse_vars>>

\* get_tavily_content: days = _get_search_days()
TavilySearchDays ==
    /\ mode = "run"
    /\ tav_pc = "idle"
    /\ Len(calls) + 1 < MaxCalls
    /\ calls' = Append(calls, Resolve("tavily_days"))
    /\ tav_pc' = "window"
    /\ UNCHANGED <<mode, now, ticks>>
    /\ UNCHANGED <<lim_vars, agg_vars, mail_vars, main_vars, backoff_vars, source_vars,
                   send_vars, tavily_vars, render_vars, parse_vars>>

\* get_tavily_content: start_time, end_time = get_content_collection_timeframe()
TavilyResolvesWindow ==
    /\ mode = "run"
    /\ tav_pc = "window"
    /\ calls' = Append(calls, Resolve("tavily"))
    /\ tav_pc' = "idle"
    /\ UNCHANGED <<mode, now, ticks>>
    /\ UNCHANGED <<lim_vars, agg_vars, mail_vars, main_vars, backoff_vars, source_vars,
                   send_vars, tavily_vars, render_vars, parse_vars>>

\* C6: every window resolved in one run is the same (start, end) pair, also
\* when the wall clock advances between two resolutions.
C6_WindowShared ==
    \A i, j \in DOMAIN calls :
        calls[i].start = calls[j].start /\ calls[i].end = calls[j].end

DayStart(t) == (t \div HoursPerDay) * HoursPerDay

\* C7: end is 06:00 on now's day; start is 06:00 of the most recent Friday on
\* Saturday, Sunday and Monday and 06:00 of the previous day otherwise; so
\* start < end, the span is 1 day on Tuesday to Friday and 1, 2, 3 days on
\* Saturday, Sunday, Monday.
C7_WindowShape ==
    \A i \in DOMAIN calls :
        LET c == calls[i]
            wd == weekday(c.at)
            span == c.end - c.start
        IN  /\ c.end = DayStart(c.at) + CutoffHour
            /\ c.start < c.end
            /\ c.start = DayStart(c.start) + CutoffHour
            /\ wd \in {5, 6, 0} =>
                  /\ weekday(c.start) = 4
                  /\ span < DaysPerWeek * HoursPerDay
            /\ wd \in 1..4 => DayStart(c.start) = DayStart(c.at) - HoursPerDay
            /\ span = HoursPerDay *
                  (CASE wd = 5 -> 1 [] wd = 6 -> 2 [] wd = 0 -> 3 [] OTHER -> 1)

\* a window resolved on a Monday, reaching back three days to Friday 06:00
C7_Witness ==
    \E i \in DOMAIN calls :
        /\ weekday(calls[i].at) = 0
        /\ calls[i].end - calls[i].start = 3 * HoursPerDay
        /\ weekday(calls[i].start) = 4

(***************************************************************************)
(* get_content and the adapters it calls.  An adapter's source is          *)
(* feed[a]: cond "fail" when the endpoint cannot be read or its top-level  *)
(* document is malformed, and entries, the items the adapter extracts when *)
(* it can be read.                                                         *)
(***************************************************************************)
ListOf(s) == [tag |-> "list", val |-> s]

\* get_gq_content: every failure is caught on the way and leaves a list
get_gq_content(f) == ListOf(IF f.cond = "fail" THEN <<>> ELSE f.entries)

\* get_vegconomist_content: return [] on no timestamps and on any exception
get_vegconomist_content(f) == ListOf(IF f.cond = "fail" THEN <<>> ELSE f.entries)

\* get_fast_email_content as get_content sees it: return [] on any exception
get_fast_email_content_result(f) == ListOf(IF f.cond = "fail" THEN <<>> ELSE f.entries)

\* get_ea_forum_content: return [] on no channel, no timestamps, any exception
get_ea_forum_content(f) == ListOf(IF f.cond = "fail" THEN <<>> ELSE f.entries)

\* get_rundown_content: None when the feed has no entries, the page cannot be
\* fetched or has no content container; otherwise one dict {"url", "article"}
get_rundown_content(f) ==
    IF f.cond = "fail" \/ f.entries = <<>>
    THEN [tag |-> "none", val |-> <<>>]
    ELSE [tag |-> "dict", val |-> <<f.entries[Len(f.entries)]>>]

Titles == {"Alternative Protein", "Vegan Movement", "Effective Altruism", "AI", "Politics"}

\* the sources get_content appends for a title, in order
SourcesOf(t) ==
    CASE t = "Alternative Protein" ->
            << [source_name |-> "Green Queen", adapter |-> "gq", content_type |-> "articles"],
               [source_name |-> "Vegconomist", adapter |-> "veg", content_type |-> "articles"] >>
      [] t = "Vegan Movement" ->
            << [source_name |-> "FAST Email List", adapter |-> "fast", content_type |-> "emails"] >>
      [] t = "Effective Altruism" ->
            << [source_name |-> "EA Forum", adapter |-> "ea", content_type |-> "articles"] >>
      [] t = "AI" ->
            << [source_name |-> "The Rundown AI", adapter |-> "rundown", content_type |-> "articles"] >>
      [] OTHER -> <<>>

CallAdapter(a, f) ==
    CASE a = "gq" -> get_gq_content(f)
      [] a = "veg" -> get_vegconomist_content(f)
      [] a = "fast" -> get_fast_email_content_result(f)
      [] a = "ea" -> get_ea_forum_content(f)
      [] a = "rundown" -> get_rundown_content(f)

\* combined_content.extend(source["content"]) over the sources
RECURSIVE Combine(_, _)
Combine(srcs, ret) ==
    IF srcs = <<>> THEN <<>>
    ELSE ret[Head(srcs).adapter].val \o Combine(Tail(srcs), ret)

\* the filter of the limited content "to only include items from this source":
\* by the presence of a "subject" or "url" key
FilterForSource(limited, src, ret, h) ==
    SelectSeq(limited, LAMBDA id :
        \/ src.content_type = "emails" /\ h[id].kind = "email"
        \/ src.content_type = "articles" /\ h[id].kind = "article")

\* extend(None) raises TypeError; extend(dict) adds the dict's keys, two
\* strings, and the limiter's sort key then raises AttributeError on a string
ExtendRaises(srcs, ret) ==
    \E k \in DOMAIN srcs : ret[srcs[k].adapter].tag # "list"

\* what the email adapter produces: a "subject" key and an ISO datetime string
EmailItems == {it \in ItemRec :
                  it.kind = "email" /\ it.rep = "str" /\ it.dt >= 1 /\ it.off = 0}

\* what the article adapters of get_content produce: a "url" key, no datetime
ArticleItems == {it \in ItemRec :
                    it.kind = "article" /\ it.rep = "none" /\ it.dt = 0 /\ it.off = 0}

FromTo(a, b) == [i \in 1..(b - a + 1) |-> a + i - 1]

InitContent ==
    /\ mode = "content"
    /\ title \in Titles
    /\ max_tokens \in 0..MaxBudget
    /\ \E n \in 0..MaxItems, g \in 0..MaxItems, chg \in DstEnds :
          /\ g <= n
          /\ title # "Alternative Protein" => g = 0
          /\ title = "Politics" => n = 0
          /\ \E f \in [1..n -> IF title = "Vegan Movement" THEN EmailItems ELSE ArticleItems] :
                items = [id \in ItemIds |->
                            IF id <= n THEN AtOffset(f[id], chg) ELSE NoItem]
          /\ \E c \in [Adapters -> {"ok", "fail"}] :
                feed = [a \in Adapters |->
                          IF \E k \in DOMAIN SourcesOf(title) : SourcesOf(title)[k].adapter = a
                          THEN [cond |-> c[a],
                                entries |-> IF a = "gq" THEN FromTo(1, g) ELSE FromTo(g + 1, n)]
                          ELSE NoFeed]
    /\ items0 = items
    /\ content_list = <<>>
    /\ content = <<>>
    /\ lim_pc = "idle"
    /\ content_again = <<>>
    /\ items_first = items
    /\ adapter_ret = [a \in Adapters |-> NotCalled]
    /\ limited_content = <<>>
    /\ all_content = <<>>
    /\ raised = FALSE
    /\ agg_pc = "call"
    /\ TimeIdle
    /\ MailIdle
    /\ MainIdle
    /\ BackoffIdle
    /\ SourceIdle
    /\ SendIdle
    /\ TavilyIdle
    /\ RenderIdle
    /\ ParseIdle

\* get_content(title, max_tokens)
get_content ==
    /\ mode = "content"
    /\ agg_pc = "call"
    /\ LET srcs == SourcesOf(title)
           ret == [a \in Adapters |->
                      IF \E k \in DOMAIN srcs : srcs[k].adapter = a
                      THEN CallAdapter(a, feed[a]) ELSE NotCalled]
           combined_content == Combine(srcs, ret)
           r == LimitContentByTokens(combined_content, items, max_tokens)
       IN  /\ adapter_ret' = ret
           /\ IF ExtendRaises(srcs, ret)
              THEN /\ raised' = TRUE
                   /\ UNCHANGED <<limited_content, all_content, items>>
              ELSE /\ raised' = FALSE
                   /\ limited_content' = r.content
                   /\ items' = r.items
                   /\ all_content' =
                        [k \in DOMAIN srcs |->
                            [source_name |-> srcs[k].source_name,
                             content_type |-> srcs[k].content_type,
                             content |->
                                IF combined_content = <<>> THEN ret[srcs[k].adapter].val
                                ELSE FilterForSource(r.content, srcs[k], ret, r.items)]]
    /\ agg_pc' = "done"
    /\ UNCHANGED <<mode, title, feed, max_tokens, items0, content_list, content, lim_pc,
                   content_again, items_first>>
    /\ UNCHANGED <<time_vars, mail_vars, main_vars, backoff_vars, source_vars, send_vars,
                   tavily_vars, render_vars, parse_vars>>

TopicAdapters == {SourcesOf(title)[k].adapter : k \in DOMAIN SourcesOf(title)}

Occurrences(s, x) == Cardinality({i \in DOMAIN s : s[i] = x})

\* C4: the returned sources hold exactly the limiter's output: every surviving
\* item is in the content of exactly one source, the one whose adapter
\* produced it, and no source holds anything else.
C4_ReturnsLimitedCollection ==
    (agg_pc = "done" /\ ~raised) =>
        \A k \in DOMAIN all_content :
            /\ Range(all_content[k].content) \subseteq Range(limited_content)
            /\ \A id \in Range(limited_content) :
                  Occurrences(all_content[k].content, id) =
                     (IF id \in Range(adapter_ret[SourcesOf(title)[k].adapter].val)
                      THEN 1 ELSE 0)

\* C8: a whole-adapter failure makes that adapter contribute an empty sequence,
\* get_content does not raise, and what the limiter kept of the other adapters'
\* items is in the result.
C8_AdapterFailureIsolated ==
    (agg_pc = "done" /\ \E a \in TopicAdapters : feed[a].cond = "fail") =>
        /\ ~raised
        /\ \A a \in TopicAdapters :
              feed[a].cond = "fail" => adapter_ret[a] = ListOf(<<>>)
        /\ \A id \in Range(limited_content) :
              \E k \in DOMAIN all_content : id \in Range(all_content[k].content)

\* C10: an adapter whose feed has zero entries returns an empty sequence, and
\* get_content returns a collection without raising.
C10_EmptySource ==
    (agg_pc = "done"
        /\ \E a \in TopicAdapters : feed[a].cond = "ok" /\ feed[a].entries = <<>>) =>
        /\ \A a \in TopicAdapters :
              (feed[a].cond = "ok" /\ feed[a].entries = <<>>) => adapter_ret[a] = ListOf(<<>>)
        /\ ~raised
        /\ Len(all_content) = Len(SourcesOf(title))

\* C18: every item an adapter returns carries a timestamp (a "datetime" value).
C18_ItemsCarryTimestamp ==
    agg_pc = "done" =>
        \A a \in TopicAdapters :
            \A id \in Range(adapter_ret[a].val) : items0[id].rep # "none"

\* C28: the order the limiter gives the items of a collection is their
\* chronological order: of any two items that carry a timestamp, the one
\* sorted first denotes an instant not later than the other's, also when the
\* ISO-8601 strings have different UTC offsets.
C28_SortOrderIsChronological ==
    (agg_pc = "done" /\ ~raised) =>
        \A i, j \in 1..Len(limited_content) :
            (/\ i < j
             /\ items[limited_content[i]].rep # "none"
             /\ items[limited_content[j]].rep # "none")
            => items[limited_content[i]].dt <= items[limited_content[j]].dt

(***************************************************************************)
(* get_fast_email_content.  A message: t, its INTERNALDATE converted to    *)
(* the configured timezone; fault, what raises while it is processed       *)
(* ("fetch": mail.fetch or the date parsing, "decode": decoding its        *)
(* subject or body, reached only for a message inside the window);         *)
(* parts, the number of text/plain bodies it yields (1 for a message that  *)
(* is not multipart).                                                      *)
(***************************************************************************)
MsgRec(w) == [t : {w.start - 1, w.start, w.end, w.end + 1},
              fault : {"none", "fetch", "decode"},
              parts : 0..MaxParts]

\* the range re-check: start_time <= date_tuple <= end_time
InWindow(m, w) == w.start <= m.t /\ m.t <= w.end

\* processing message m raises inside the function's single try block
MessageRaises(m, w) ==
    \/ m.fault = "fetch"
    \/ m.fault = "decode" /\ InWindow(m, w) /\ m.parts >= 1

\* the entries one message appends to emails_content
EntriesOf(i, m, w) ==
    IF InWindow(m, w) THEN [k \in 1..m.parts |-> i] ELSE <<>>

InitMail ==
    /\ mode = "mail"
    /\ now \in {(DaysPerWeek + d) * HoursPerDay + CutoffHour + 1 : d \in 0..(DaysPerWeek - 1)}
    /\ ticks = 0
    /\ calls = <<>>
    /\ tav_pc = "idle"
    /\ conn_fault \in {"none", "connect", "login", "search"}
    /\ \E n \in 0..MaxMsgs :
          mailbox \in [1..n -> MsgRec(get_content_collection_timeframe(now))]
    /\ conn = "none"
    /\ mail_window = NoWindow
    /\ mail_i = 1
    /\ emails_content = <<>>
    /\ mail_ret = <<>>
    /\ mail_pc = "open"
    /\ LimitIdle
    /\ ContentIdle
    /\ MainIdle
    /\ BackoffIdle
    /\ SourceIdle
    /\ SendIdle
    /\ TavilyIdle
    /\ RenderIdle
    /\ ParseIdle

\* the except clause: logging.exception(...); return []
MailReturnsOnException ==
    /\ mail_ret' = <<>>
    /\ mail_pc' = "done"

\* lines 28-34: resolve the window, IMAP4_SSL(...), login, select
mail_open ==
    /\ mode = "mail"
    /\ mail_pc = "open"
    /\ mail_window' = get_content_collection_timeframe(now)
    /\ IF conn_fault = "connect"
       THEN MailReturnsOnException /\ UNCHANGED conn
       ELSE IF conn_fault = "login"
       THEN MailReturnsOnException /\ conn' = "open"
       ELSE conn' = "open" /\ mail_pc' = "search" /\ UNCHANGED mail_ret
    /\ UNCHANGED <<mode, mailbox, conn_fault, mail_i, emails_content>>
    /\ UNCHANGED <<lim_vars, agg_vars, time_vars, main_vars, backoff_vars, source_vars,
                   send_vars, tavily_vars, render_vars, parse_vars>>

\* lines 36-71: build the criteria, mail.search, emails_content = []
mail_search ==
    /\ mode = "mail"
    /\ mail_pc = "search"
    /\ IF conn_fault = "search"
       THEN MailReturnsOnException
       ELSE mail_pc' = "loop" /\ UNCHANGED mail_ret
    /\ UNCHANGED <<mode, mailbox, conn_fault, conn, mail_window, mail_i, emails_content>>
    /\ UNCHANGED <<lim_vars, agg_vars, time_vars, main_vars, backoff_vars, source_vars,
                   send_vars, tavily_vars, render_vars, parse_vars>>

\* lines 74-132: one iteration of the loop over email_ids
mail_process_email ==
    /\ mode = "mail"
    /\ mail_pc = "loop"
    /\ mail_i <= Len(mailbox)
    /\ IF MessageRaises(mailbox[mail_i], mail_window)
       THEN MailReturnsOnException /\ UNCHANGED <<mail_i, emails_content>>
       ELSE /\ emails_content' =
                 emails_content \o EntriesOf(mail_i, mailbox[mail_i], mail_window)
            /\ mail_i' = mail_i + 1
            /\ UNCHANGED <<mail_ret, mail_pc>>
    /\ UNCHANGED <<mode, mailbox, conn_fault, conn, mail_window>>
    /\ UNCHANGED <<lim_vars, agg_vars, time_vars, main_vars, backoff_vars, source_vars,
                   send_vars, tavily_vars, render_vars, parse_vars>>

\* lines 134-136: mail.logout(); return emails_content
mail_logout_return ==
    /\ mode = "mail"
    /\ mail_pc = "loop"
    /\ mail_i > Len(mailbox)
    /\ conn' = "closed"
    /\ mail_ret' = emails_content
    /\ mail_pc' = "done"
    /\ UNCHANGED <<mode, mailbox, conn_fault, mail_window, mail_i, emails_content>>
    /\ UNCHANGED <<lim_vars, agg_vars, time_vars, main_vars, backoff_vars, source_vars,
                   send_vars, tavily_vars, render_vars, parse_vars>>

\* C9: a failure on one email skips only that email: every other message the
\* adapter would have returned without the failure, processed before or after
\* the failing one, is still returned.
C9_SubResourceFailureSkipsOnlyIt ==
    (mail_pc = "done" /\ conn_fault = "none") =>
        \A i \in DOMAIN mailbox :
            (/\ ~MessageRaises(mailbox[i], mail_window)
             /\ InWindow(mailbox[i], mail_window)
             /\ mailbox[i].parts >= 1)
            => i \in Range(mail_ret)

\* C13: a call that opened an IMAP connection has closed it (logout) when it
\* returns, on the success path and on every error path.
C13_ConnectionClosedOnReturn ==
    mail_pc = "done" => conn # "open"

\* C17: in a call whose search succeeded, a message the search matched is
\* returned if and only if its timestamp t, in the configured timezone,
\* satisfies window.start <= t <= window.end.
C17_ReturnedIffInWindow ==
    (mail_pc = "done" /\ conn_fault = "none") =>
        \A i \in DOMAIN mailbox :
            i \in Range(mail_ret) <=> InWindow(mailbox[i], mail_window)

(***************************************************************************)
(* main (main.py).  A run walks the configured sections: get_content, then *)
(* the LLM call inside the section's try; then the newsletter block, the   *)
(* three chart functions and send_email.  What a step's external call does *)
(* (an endpoint answers or fails, the LLM call succeeds or exhausts its    *)
(* retries) is chosen at the step.                                         *)
(***************************************************************************)
\* config.SECTIONS, by title
SECTIONS == << "Alternative Protein", "Vegan Movement", "Effective Altruism",
               "Venture Capital", "Financial Markets", "AI", "Politics", "Climate" >>

\* the titles at the indexes S of SECTIONS, in the configured order
RECURSIVE SectionsAt(_)
SectionsAt(S) ==
    IF S = {} THEN <<>>
    ELSE LET m == CHOOSE x \in S : \A y \in S : y <= x
         IN  Append(SectionsAt(S \ {m}), SECTIONS[m])

\* the section lists a run is given: the configured list, and every selection
\* of up to MaxSections of its sections
SectionLists ==
    {SECTIONS} \cup
    {SectionsAt(S) : S \in {T \in SUBSET (DOMAIN SECTIONS) : Cardinality(T) <= MaxSections}}

\* the state of the sources of one get_content call
SourceStates ==
    {[a \in Adapters |-> [cond |-> c[a], entries |-> e]] :
        c \in [Adapters -> {"ok", "fail"}], e \in {<<>>, <<1>>}}

\* get_content(title) ends by an exception: combined_content.extend of a value
\* that is no list, or the limiter's sort key on what extend made of a dict
GetContentRaises(t, fd) ==
    LET srcs == SourcesOf(t)
        ret == [a \in Adapters |->
                   IF \E k \in DOMAIN srcs : srcs[k].adapter = a
                   THEN CallAdapter(a, fd[a]) ELSE NotCalled]
    IN  ExtendRaises(srcs, ret)

InitMain ==
    /\ mode = "main"
    /\ sections \in SectionLists
    /\ sec_i = 1
    /\ all_news_items = <<>>
    /\ llm_failed = {}
    /\ newsletter = "none"
    /\ send_calls = <<>>
    /\ main_pc = IF sections = <<>> THEN "newsletter" ELSE "content"
    /\ block_outcome = "none"
    /\ email_subject = "unset"
    /\ main_image_paths = "unset"
    /\ LimitIdle
    /\ TimeIdle
    /\ ContentIdle
    /\ MailIdle
    /\ BackoffIdle
    /\ SourceIdle
    /\ SendIdle
    /\ TavilyIdle
    /\ RenderIdle
    /\ ParseIdle

\* lines 60-61: content = get_content(section["title"]), outside every try
main_get_content ==
    /\ mode = "main"
    /\ main_pc = "content"
    /\ \E fd \in SourceStates :
          main_pc' = IF GetContentRaises(sections[sec_i], fd) THEN "raised" ELSE "llm"
    /\ UNCHANGED <<mode, sections, sec_i, all_news_items, llm_failed, newsletter, send_calls>>
    /\ UNCHANGED <<block_outcome, email_subject, main_image_paths>>
    /\ UNCHANGED <<lim_vars, time_vars, agg_vars, mail_vars, backoff_vars, source_vars,
                   send_vars, tavily_vars, render_vars, parse_vars>>

\* lines 64-104: the section's try block.  "items": the call returns news
\* items; "no_items": it returns none; "exhausted": it raises after its last
\* retry, and the except clause logs
main_llm ==
    /\ mode = "main"
    /\ main_pc = "llm"
    /\ \E o \in {"items", "no_items", "exhausted"} :
          /\ all_news_items' =
                IF o = "items" THEN Append(all_news_items, sections[sec_i])
                ELSE all_news_items
          /\ llm_failed' =
                IF o = "exhausted" THEN llm_failed \cup {sections[sec_i]} ELSE llm_failed
    /\ sec_i' = sec_i + 1
    /\ main_pc' = IF sec_i = Len(sections) THEN "newsletter" ELSE "content"
    /\ UNCHANGED <<mode, sections, newsletter, send_calls>>
    /\ UNCHANGED <<block_outcome, email_subject, main_image_paths>>
    /\ UNCHANGED <<lim_vars, time_vars, agg_vars, mail_vars, backoff_vars, source_vars,
                   send_vars, tavily_vars, render_vars, parse_vars>>

\* lines 106-134: the newsletter block.  "full": every step succeeds;
\* "degraded": generate_cohesive_newsletter returns its error paragraph or an
\* image is not generated; "raise": reading the template or rendering raises
main_newsletter ==
    /\ mode = "main"
    /\ main_pc = "newsletter"
    /\ IF all_news_items = <<>>
       THEN /\ newsletter' = "fallback"
            /\ block_outcome' = "no_items"
            /\ email_subject' = "none"
            /\ main_image_paths' = "empty"
       ELSE \E o \in {"full", "degraded", "raise"} :
               /\ newsletter' = IF o = "raise" THEN "fallback" ELSE o
               /\ block_outcome' = o
               /\ email_subject' \in CASE o = "full" -> {"custom"}
                                      [] o = "degraded" -> {"custom", "none"}
                                      [] o = "raise" -> {"none"}
               /\ main_image_paths' \in CASE o = "full" -> {"generated"}
                                         [] o = "degraded" -> {"generated", "empty"}
                                         [] o = "raise" -> {"empty"}
    /\ main_pc' = "charts"
    /\ UNCHANGED <<mode, sections, sec_i, all_news_items, llm_failed, send_calls>>
    /\ UNCHANGED <<lim_vars, time_vars, agg_vars, mail_vars, backoff_vars, source_vars,
                   send_vars, tavily_vars, render_vars, parse_vars>>

\* lines 137-139: create_charts(), which catches nothing, then the two chart
\* functions that catch what they raise
main_charts ==
    /\ mode = "main"
    /\ main_pc = "charts"
    /\ \E create_charts \in {"ok", "raise"} :
          main_pc' = IF create_charts = "raise" THEN "raised" ELSE "send"
    /\ UNCHANGED <<mode, sections, sec_i, all_news_items, llm_failed, newsletter, send_calls>>
    /\ UNCHANGED <<block_outcome, email_subject, main_image_paths>>
    /\ UNCHANGED <<lim_vars, time_vars, agg_vars, mail_vars, backoff_vars, source_vars,
                   send_vars, tavily_vars, render_vars, parse_vars>>

\* lines 140-141: send_email(newsletter, ...), which returns a bool
main_send ==
    /\ mode = "main"
    /\ main_pc = "send"
    /\ send_calls' = Append(send_calls, newsletter)
    /\ main_pc' = "returned"
    /\ UNCHANGED <<mode, sections, sec_i, all_news_items, llm_failed, newsletter>>
    /\ UNCHANGED <<block_outcome, email_subject, main_image_paths>>
    /\ UNCHANGED <<lim_vars, time_vars, agg_vars, mail_vars, backoff_vars, source_vars,
                   send_vars, tavily_vars, render_vars, parse_vars>>

\* C11: whatever step fails, send_email is invoked with some HTML body: no run
\* of main ends, by a return or by an exception, before the send attempt.
C11_SendAlwaysAttempted ==
    main_pc \in {"returned", "raised"} => send_calls # <<>>

\* C12: a topic whose LLM call exhausted its retries has a placeholder story
\* among the collected news items.
C12_FallbackStoryForFailedTopic ==
    \A t \in llm_failed : t \in Range(all_news_items)

\* C26: when reading the template or rendering the HTML raises, main sets the
\* body to the generic fallback HTML, with no custom subject and no generated
\* images, and the run reaches send_email with that body.
C26_RenderFailureFallsBackAndSends ==
    block_outcome = "raise" =>
        /\ newsletter = "fallback"
        /\ email_subject = "none"
        /\ main_image_paths = "empty"
        /\ main_pc \in {"returned", "raised"} => send_calls = <<"fallback">>

(***************************************************************************)
(* call_api_with_backoff (utils/api_utils.py).  One action is one          *)
(* iteration of its while loop.  Delays are counted in tenths of a second  *)
(* and the jitter factor in tenths, so that                                *)
(* initial_retry_delay * 2^(retry_count - 1) * jitter keeps whole numbers. *)
(***************************************************************************)
Jitters == JitterLow..JitterHigh

RECURSIVE Pow2(_)
Pow2(n) == IF n <= 0 THEN 1 ELSE 2 * Pow2(n - 1)

Min(a, b) == IF a <= b THEN a ELSE b

\* a check that lets the loop end before it raises
RetryLimitPassed(rc, mx) == rc > mx

\* if retry_count >= max_retries: raise
RetryLimitReached(rc, mx) == rc >= mx

\* an exponent that starts one doubling too far
BackoffExponentNext(rc) == rc

\* the exponent of 2 ** (retry_count - 1)
BackoffExponent(rc) == rc - 1

\* delay = min(initial_retry_delay * (2 ** (retry_count - 1)) * jitter, max_retry_delay)
BackoffDelay(initial, rc, j, mx) ==
    Min(initial * Pow2(BackoffExponent(rc)) * j, mx * JitterScale)

InitBackoff ==
    /\ mode = "backoff"
    /\ max_retries \in 0..MaxRetries
    /\ initial_retry_delay \in 1..MaxInitialDelay
    /\ max_retry_delay \in {SmallRetryDelay, MAX_RETRY_DELAY}
    /\ retry_count = 0
    /\ attempts = <<>>
    /\ jitter = 0
    /\ sleeps = <<>>
    /\ backoff_pc = "loop"
    /\ LimitIdle
    /\ TimeIdle
    /\ ContentIdle
    /\ MailIdle
    /\ MainIdle
    /\ SourceIdle
    /\ SendIdle
    /\ TavilyIdle
    /\ RenderIdle
    /\ ParseIdle

\* lines 61-92: one iteration: draw the jitter, call api_call(); return its
\* response, or count the failure and either re-raise it or sleep
backoff_attempt ==
    /\ mode \in {"backoff", "parse"}
    /\ backoff_pc = "loop"
    /\ retry_count < max_retries
    /\ \E j \in Jitters, outcome \in {"ok", "fail"} :
          /\ jitter' = j
          /\ attempts' = Append(attempts, outcome)
          /\ IF outcome = "ok"
             THEN /\ backoff_pc' = "returned"
                  /\ UNCHANGED <<retry_count, sleeps>>
             ELSE /\ retry_count' = retry_count + 1
                  /\ IF RetryLimitReached(retry_count + 1, max_retries)
                     THEN /\ backoff_pc' = "raised"
                          /\ UNCHANGED sleeps
                     ELSE /\ sleeps' = Append(sleeps,
                                 [after |-> Len(attempts) + 1,
                                  jitter |-> j,
                                  delay |-> BackoffDelay(initial_retry_delay,
                                                retry_count + 1, j, max_retry_delay)])
                          /\ UNCHANGED backoff_pc
    /\ UNCHANGED <<mode, max_retries, initial_retry_delay, max_retry_delay>>
    /\ UNCHANGED <<lim_vars, time_vars, agg_vars, mail_vars, main_vars, source_vars,
                   send_vars, tavily_vars, render_vars, parse_vars>>

\* line 95: the loop condition is false: raise Exception("Max retries exceeded ...")
backoff_exceeded ==
    /\ mode = "backoff"
    /\ backoff_pc = "loop"
    /\ ~(retry_count < max_retries)
    /\ backoff_pc' = "exceeded"
    /\ UNCHANGED <<mode, max_retries, initial_retry_delay, max_retry_delay, retry_count,
                   attempts, jitter, sleeps>>
    /\ UNCHANGED <<lim_vars, time_vars, agg_vars, mail_vars, main_vars, source_vars,
                   send_vars, tavily_vars, render_vars, parse_vars>>

AllFailed(n) == \A i \in 1..n : attempts[i] = "fail"

\* with max_retries >= 1: at most max_retries invocations; a return hands back
\* the first success and ends the call; a raise is the failure of invocation
\* number max_retries, after that many failures in a row
BackoffWithinLimit ==
    max_retries >= 1 =>
        /\ Len(attempts) <= max_retries
        /\ backoff_pc \in {"loop", "returned", "raised"}
        /\ backoff_pc = "loop" =>
              /\ Len(attempts) < max_retries
              /\ AllFailed(Len(attempts))
        /\ backoff_pc = "returned" =>
              /\ Len(attempts) >= 1
              /\ attempts[Len(attempts)] = "ok"
              /\ AllFailed(Len(attempts) - 1)
        /\ backoff_pc = "raised" =>
              /\ Len(attempts) = max_retries
              /\ AllFailed(max_retries)

\* C14: with max_retries = N >= 1 the call always terminates, after at least
\* one and at most N invocations: it returns the first success without a
\* further invocation, and re-raises the N-th failure after N failures in a row.
C14_TerminatesWithinN ==
    /\ []BackoffWithinLimit
    /\ <>(backoff_pc \in {"returned", "raised", "exceeded"})

\* the N-th of N >= 2 invocations fails too, and its failure is re-raised
C14_Witness ==
    /\ backoff_pc = "raised"
    /\ max_retries >= 2
    /\ Len(attempts) = max_retries

\* C15: after the k-th failed attempt with k < max_retries there is exactly one
\* sleep, of min(initial_retry_delay * 2^(k-1) * jitter, max_retry_delay), so
\* none is longer than max_retry_delay and the delay before jitter doubles
\* with each failure; no sleep follows a success or the last failed attempt.
C15_SleepSchedule ==
    /\ \A k \in DOMAIN sleeps :
          /\ sleeps[k].after = k
          /\ k < max_retries
          /\ attempts[k] = "fail"
          /\ sleeps[k].jitter \in Jitters
          /\ sleeps[k].delay =
                Min(initial_retry_delay * Pow2(k - 1) * sleeps[k].jitter,
                    max_retry_delay * JitterScale)
          /\ sleeps[k].delay <= max_retry_delay * JitterScale
    /\ Len(sleeps) =
          IF backoff_pc \in {"returned", "raised"} THEN Len(attempts) - 1
          ELSE Len(attempts)

\* three sleeps, the first below the cap and the third cut down to it
C15_Witness ==
    /\ Len(sleeps) >= 3
    /\ sleeps[1].delay < max_retry_delay * JitterScale
    /\ sleeps[3].delay = max_retry_delay * JitterScale
    /\ initial_retry_delay * Pow2(2) * sleeps[3].jitter > max_retry_delay * JitterScale

(***************************************************************************)
(* The feed and sitemap adapters (content/rss_content.py,                  *)
(* content/sitemap_content.py).  An entry is its timestamp t, in hours on  *)
(* the run's clock, or undated when the feed gives it no published date    *)
(* (the sitemap no lastmod).  The order of the entries plays no part in    *)
(* what is kept, so the entries are a set.                                 *)
(***************************************************************************)
SourceAdapters == {"vegconomist", "sitemap", "ea_forum"}

Undated == [t |-> 0, dated |-> FALSE]

\* entries just outside and exactly on the two ends of window w, and an undated one
BoundaryEntries(w) ==
    {[t |-> x, dated |-> TRUE] : x \in {w.start - 1, w.start, w.end, w.end + 1}}
        \cup {Undated}

\* first pass: the most recent timestamp of the dated entries
latest_datetime(es) ==
    LET ts == {e.t : e \in {d \in es : d.dated}}
    IN  CHOOSE m \in ts : \A x \in ts : x <= m

\* cutoff_time = latest_datetime - timedelta(hours=24), 48 for the EA Forum
cutoff_time(a, es) ==
    latest_datetime(es) - (IF a = "ea_forum" THEN EaLookbackHours ELSE LookbackHours)

\* second pass: the entries with cutoff_time <= t <= latest_datetime; none when
\* no entry is dated
KeptEntries(a, es) ==
    IF \A e \in es : ~e.dated THEN {}
    ELSE {e \in es : e.dated /\ cutoff_time(a, es) <= e.t /\ e.t <= latest_datetime(es)}

InitSource ==
    /\ mode = "source"
    /\ now \in {(DaysPerWeek + d) * HoursPerDay + CutoffHour + 1 : d \in 0..(DaysPerWeek - 1)}
    /\ ticks = 0
    /\ calls = <<>>
    /\ tav_pc = "idle"
    /\ src_adapter \in SourceAdapters
    /\ src_entries \in SUBSET BoundaryEntries(get_content_collection_timeframe(now))
    /\ src_ret = {}
    /\ src_pc = "call"
    /\ LimitIdle
    /\ ContentIdle
    /\ MailIdle
    /\ MainIdle
    /\ BackoffIdle
    /\ SendIdle
    /\ TavilyIdle
    /\ RenderIdle
    /\ ParseIdle

\* get_vegconomist_content(), get_latest_24h_articles(), get_ea_forum_content()
source_call ==
    /\ mode = "source"
    /\ src_pc = "call"
    /\ src_ret' = KeptEntries(src_adapter, src_entries)
    /\ src_pc' = "done"
    /\ UNCHANGED <<mode, src_adapter, src_entries>>
    /\ UNCHANGED <<lim_vars, time_vars, agg_vars, mail_vars, main_vars, backoff_vars,
                   send_vars, tavily_vars, render_vars, parse_vars>>

\* C16: a feed or sitemap adapter keeps a dated entry if and only if its
\* timestamp t satisfies window.start <= t <= window.end for the run's
\* collection window.
C16_KeptIffInRunWindow ==
    src_pc = "done" =>
        LET w == get_content_collection_timeframe(now)
        IN  \A e \in src_entries :
               e.dated => (e \in src_ret <=> (w.start <= e.t /\ e.t <= w.end))


(***************************************************************************)
(* send_email (utils/email_utils.py), as main calls it                     *)
(*                                                                         *)
(* The message is built and the SMTP conversation is held inside one try   *)
(* block.  smtp_fault names the step that raises in this run.              *)
(***************************************************************************)
MaxRecipients == 2

GOOGLE_USERNAME == "primary"

Addresses == {GOOGLE_USERNAME, "r1", "r2"}

RecipientLists == UNION {[1..n -> Addresses] : n \in 0..MaxRecipients}

SmtpFaults == {"none", "build", "connect", "starttls", "login", "sendmail", "quit"}

bcc_recipients_always(flag, configured) == configured

\* bcc_recipients = RECIPIENT_EMAILS if send_to_everyone else []
bcc_recipients(flag, configured) == IF flag THEN configured ELSE <<>>

\* all_recipients = recipients + bcc_recipients, with recipients = [GOOGLE_USERNAME]
all_recipients(flag, configured) == <<GOOGLE_USERNAME>> \o bcc_recipients(flag, configured)

send_except_reraise == [pc |-> "raised", ret |-> "none"]

\* except Exception: logging.exception(...); return False
send_except == [pc |-> "returned", ret |-> "False"]

InitSend ==
    /\ mode = "send"
    /\ send_to_everyone \in BOOLEAN
    /\ RECIPIENT_EMAILS \in RecipientLists
    /\ smtp_fault \in SmtpFaults
    /\ smtp_steps = <<>>
    /\ sendmail_calls = <<>>
    /\ send_ret = "none"
    /\ send_pc = "build"
    /\ LimitIdle
    /\ TimeIdle
    /\ ContentIdle
    /\ MailIdle
    /\ MainIdle
    /\ BackoffIdle
    /\ SourceIdle
    /\ TavilyIdle
    /\ TavilyIdle
    /\ RenderIdle
    /\ ParseIdle

\* one statement group of the try block: it raises when it is the faulty
\* step, and the except clause then ends the call
SendStep(step, next) ==
    /\ mode = "send"
    /\ send_pc = step
    /\ smtp_steps' = Append(smtp_steps, step)
    /\ IF smtp_fault = step
       THEN /\ send_pc' = send_except.pc
            /\ send_ret' = send_except.ret
       ELSE /\ send_pc' = next
            /\ UNCHANGED send_ret
    /\ UNCHANGED <<mode, send_to_everyone, RECIPIENT_EMAILS, smtp_fault>>
    /\ UNCHANGED <<lim_vars, time_vars, agg_vars, mail_vars, main_vars, backoff_vars,
                   source_vars, tavily_vars, render_vars, parse_vars>>

\* the message container, the HTML part and the image attachments
send_build == SendStep("build", "connect") /\ UNCHANGED sendmail_calls

\* server = smtplib.SMTP(SMTP_SERVER, SMTP_PORT)
smtp_connect == SendStep("connect", "starttls") /\ UNCHANGED sendmail_calls

\* server.starttls()
smtp_starttls == SendStep("starttls", "login") /\ UNCHANGED sendmail_calls

\* server.login(GOOGLE_USERNAME, GOOGLE_PASSWORD)
smtp_login == SendStep("login", "sendmail") /\ UNCHANGED sendmail_calls

\* server.sendmail(GOOGLE_USERNAME, all_recipients, msg.as_string())
smtp_sendmail ==
    /\ SendStep("sendmail", "quit")
    /\ sendmail_calls' = Append(sendmail_calls,
                                all_recipients(send_to_everyone, RECIPIENT_EMAILS))

\* server.quit(), the removal of the temporary image files, return True
smtp_quit_return ==
    /\ mode = "send"
    /\ send_pc = "quit"
    /\ smtp_steps' = Append(smtp_steps, "quit")
    /\ IF smtp_fault = "quit"
       THEN /\ send_pc' = send_except.pc
            /\ send_ret' = send_except.ret
       ELSE /\ send_pc' = "returned"
            /\ send_ret' = "True"
    /\ UNCHANGED <<mode, send_to_everyone, RECIPIENT_EMAILS, smtp_fault, sendmail_calls>>
    /\ UNCHANGED <<lim_vars, time_vars, agg_vars, mail_vars, main_vars, backoff_vars,
                   source_vars, tavily_vars, render_vars, parse_vars>>

\* main: send_email(...) is its last statement and its result is not read
main_after_send ==
    /\ mode = "send"
    /\ send_pc = "returned"
    /\ send_pc' = "main_done"
    /\ UNCHANGED <<mode, send_to_everyone, RECIPIENT_EMAILS, smtp_fault, smtp_steps,
                   sendmail_calls, send_ret>>
    /\ UNCHANGED <<lim_vars, time_vars, agg_vars, mail_vars, main_vars, backoff_vars,
                   source_vars, tavily_vars, render_vars, parse_vars>>

\* C21: the envelope recipients given to server.sendmail are exactly the
\* primary account when --send-to-everyone is absent, and the primary
\* account plus the configured recipient list when it is present; without
\* the flag every address delivered to is the primary account.
C21_EnvelopeRecipients ==
    \A i \in 1..Len(sendmail_calls) :
        /\ Range(sendmail_calls[i]) = IF send_to_everyone
                                      THEN {GOOGLE_USERNAME} \cup Range(RECIPIENT_EMAILS)
                                      ELSE {GOOGLE_USERNAME}
        /\ ~send_to_everyone =>
              \A a \in Range(RECIPIENT_EMAILS) \ {GOOGLE_USERNAME} :
                  a \notin Range(sendmail_calls[i])

C21_Witness ==
    /\ sendmail_calls # <<>>
    /\ ~send_to_everyone
    /\ Range(RECIPIENT_EMAILS) \ {GOOGLE_USERNAME} # {}

SmtpSteps == {"connect", "starttls", "login", "sendmail"}

\* C22: when an SMTP step (connect, STARTTLS, login, sendmail) fails,
\* send_email performs no later step and no second sendmail, returns False,
\* and no exception leaves send_email or main.
C22_DeliveryFailureContained ==
    /\ send_pc # "raised"
    /\ (smtp_fault \in SmtpSteps /\ smtp_fault \in Range(smtp_steps)) =>
          /\ smtp_steps[Len(smtp_steps)] = smtp_fault
          /\ Cardinality({i \in 1..Len(smtp_steps) : smtp_steps[i] = smtp_fault}) = 1
          /\ Len(sendmail_calls) <= 1
          /\ send_ret = "False"
          /\ send_pc \in {"returned", "main_done"}

C22_Witness ==
    /\ smtp_fault = "sendmail"
    /\ sendmail_calls # <<>>
    /\ send_ret = "False"
    /\ send_pc = "main_done"


(***************************************************************************)
(* get_tavily_content (content/tavily_content.py)                          *)
(*                                                                         *)
(* tav_stream is what the search API answers to the topic's queries, one   *)
(* query after the other: a "result" is one item of a response, "next"     *)
(* ends a response, and "fail" is the point of a response (its beginning,  *)
(* when client.search itself raises) where an exception is raised: the     *)
(* loop goes on with the next query, so "fail" ends the response too.      *)
(* A result's published_date is absent ("none"), an ISO-8601 string        *)
(* ("iso") or a date in another format ("other"); `date` is the instant    *)
(* it denotes.  The call is modelled with an API key and queries present.  *)
(***************************************************************************)
MaxEvents == 3

Urls == {"u1", "u2"}

NoDate == 0 - 1

Separator(k) == [kind |-> k, url |-> "", fmt |-> "none", date |-> NoDate]

ResultToken(u, f, d) == [kind |-> "result", url |-> u, fmt |-> f, date |-> d]

\* the results a response may hold, for the window w: without a URL, undated,
\* ISO dates around both ends of the window, and a date out of the window
\* in a format datetime.fromisoformat rejects
TavTokens(w) ==
    {Separator("next"), Separator("fail"), ResultToken("", "none", NoDate)}
    \cup {ResultToken(u, "none", NoDate) : u \in Urls}
    \cup {ResultToken(u, "iso", d) : u \in Urls, d \in {w.start - 1, w.start, w.end, w.end + 1}}
    \cup {ResultToken(u, "other", w.start - 1) : u \in Urls}

\* Monday 07:00 and Tuesday 05:00 of the second week
TavilyRunTimes == {DaysPerWeek * HoursPerDay + CutoffHour + 1,
                   (DaysPerWeek + 1) * HoursPerDay + CutoffHour - 1}

\* datetime.fromisoformat(published.replace("Z", "+00:00")).astimezone(TIMEZONE),
\* None when published is missing or fromisoformat raises ValueError
ParsePublished(tok) == IF tok.fmt = "iso" THEN tok.date ELSE NoDate

SeenBeforeNever(url, seen) == FALSE

\* url in seen_urls
SeenBefore(url, seen) == url \in seen

\* the body of `for item in response.get("results", [])` for the item at
\* index i of the stream; st is [seen, results]
ProcessItem(tok, i, st, w, t) ==
    IF tok.url = "" \/ SeenBefore(tok.url, st.seen)
    THEN st
    ELSE LET seen2 == st.seen \cup {tok.url}
             dt == ParsePublished(tok)
         IN  IF dt # NoDate /\ ~(w.start <= dt /\ dt <= w.end)
             THEN [seen |-> seen2, results |-> st.results]
             ELSE [seen |-> seen2,
                   results |-> Append(st.results,
                                      [url |-> tok.url,
                                       datetime |-> IF dt # NoDate THEN dt ELSE t,
                                       src |-> i])]

\* the index of the first "next" or "fail" at or after i, or Len(s) + 1
RECURSIVE ResponseEnd(_, _)
ResponseEnd(s, i) ==
    IF i > Len(s) \/ s[i].kind # "result" THEN i ELSE ResponseEnd(s, i + 1)

\* the items of the response beginning at i, read until it ends or raises
RECURSIVE ProcessResponse(_, _, _, _, _)
ProcessResponse(s, i, st, w, t) ==
    IF i > Len(s) \/ s[i].kind # "result"
    THEN st
    ELSE ProcessResponse(s, i + 1, ProcessItem(s[i], i, st, w, t), w, t)

InitTavily ==
    /\ mode = "tavily"
    /\ now \in TavilyRunTimes
    /\ ticks = 0
    /\ calls = <<>>
    /\ tav_pc = "idle"
    /\ \E n \in 0..MaxEvents :
          tav_stream \in [1..n -> TavTokens(get_content_collection_timeframe(now))]
    /\ tav_pos = 1
    /\ tav_days = 0
    /\ tav_window = [start |-> 0, end |-> 0]
    /\ seen_urls = {}
    /\ tav_results = <<>>
    /\ tav_call_pc = "open"
    /\ LimitIdle
    /\ ContentIdle
    /\ MailIdle
    /\ MainIdle
    /\ BackoffIdle
    /\ SourceIdle
    /\ SendIdle
    /\ RenderIdle
    /\ ParseIdle

\* days = _get_search_days(); start_time, end_time = get_content_collection_timeframe()
tavily_open ==
    /\ mode = "tavily"
    /\ tav_call_pc = "open"
    /\ tav_days' = get_search_days(now)
    /\ tav_window' = get_content_collection_timeframe(now)
    /\ seen_urls' = {}
    /\ tav_results' = <<>>
    /\ tav_call_pc' = "loop"
    /\ UNCHANGED <<mode, tav_stream, tav_pos>>
    /\ UNCHANGED <<lim_vars, time_vars, agg_vars, mail_vars, main_vars, backoff_vars,
                   source_vars, send_vars, render_vars, parse_vars>>

\* one iteration of `for query in queries`
tavily_query ==
    /\ mode = "tavily"
    /\ tav_call_pc = "loop"
    /\ tav_pos <= Len(tav_stream)
    /\ LET st == ProcessResponse(tav_stream, tav_pos,
                                 [seen |-> seen_urls, results |-> tav_results],
                                 tav_window, now)
       IN  /\ seen_urls' = st.seen
           /\ tav_results' = st.results
    /\ tav_pos' = ResponseEnd(tav_stream, tav_pos) + 1
    /\ UNCHANGED <<mode, tav_stream, tav_days, tav_window, tav_call_pc>>
    /\ UNCHANGED <<lim_vars, time_vars, agg_vars, mail_vars, main_vars, backoff_vars,
                   source_vars, send_vars, render_vars, parse_vars>>

\* return results
tavily_return ==
    /\ mode = "tavily"
    /\ tav_call_pc = "loop"
    /\ tav_pos > Len(tav_stream)
    /\ tav_call_pc' = "returned"
    /\ UNCHANGED <<mode, tav_stream, tav_pos, tav_days, tav_window, seen_urls, tav_results>>
    /\ UNCHANGED <<lim_vars, time_vars, agg_vars, mail_vars, main_vars, backoff_vars,
                   source_vars, send_vars, render_vars, parse_vars>>

\* C23: the list one get_tavily_content call returns (and builds) holds no
\* two items with the same URL, whatever the queries' results share and
\* whichever queries fail.
C23_NoDuplicateUrls ==
    \A i, j \in 1..Len(tav_results) :
        i # j => tav_results[i].url # tav_results[j].url

\* two queries' responses hold the same URL, the first of them failed after
\* that item, and the URL is returned
C23_Witness ==
    /\ tav_call_pc = "returned"
    /\ \E i, j, k \in 1..Len(tav_stream) :
          /\ i < k /\ k < j
          /\ tav_stream[i].kind = "result"
          /\ tav_stream[j].kind = "result"
          /\ tav_stream[k].kind = "fail"
          /\ tav_stream[i].url = tav_stream[j].url
          /\ tav_stream[i].url \in Urls
          /\ tav_stream[i].fmt = "none"
          /\ tav_stream[j].fmt = "none"
          /\ \E r \in Range(tav_results) : r.url = tav_stream[i].url

\* the items of the stream
ReadItems(s) == {i \in 1..Len(s) : s[i].kind = "result"}

\* C24: a result with a publish date is returned only if window.start <=
\* date <= window.end and then carries that date; a result with a URL not
\* seen before in the call and no publish date is kept and stamped with the
\* current time.
C24_DatedFilteredUndatedStamped ==
    tav_call_pc = "returned" =>
        LET read == ReadItems(tav_stream)
        IN  /\ \A r \in Range(tav_results) :
                  tav_stream[r.src].fmt # "none" =>
                      /\ tav_window.start <= tav_stream[r.src].date
                      /\ tav_stream[r.src].date <= tav_window.end
                      /\ r.datetime = tav_stream[r.src].date
            /\ \A i \in read :
                  (/\ tav_stream[i].fmt = "none"
                   /\ tav_stream[i].url # ""
                   /\ \A j \in read : j < i => tav_stream[j].url # tav_stream[i].url)
                  => \E r \in Range(tav_results) : r.src = i /\ r.datetime = now


\* the earliest instant client.search(..., days=days) made at time t covers:
\* the API counts the days back from the time of the call
ApiReach(t, days) == t - days * HoursPerDay

\* C29: _get_search_days returns the window's span rounded up to whole days,
\* at least 1, and that day-count, counted back from the time of the call,
\* reaches back at least to window.start.
C29_SearchDaysReachWindowStart ==
    tav_call_pc \in {"loop", "returned"} =>
        LET span == tav_window.end - tav_window.start
        IN  /\ tav_days >= 1
            /\ tav_days * HoursPerDay >= span
            /\ tav_days > 1 => (tav_days - 1) * HoursPerDay < span
            /\ ApiReach(now, tav_days) <= tav_window.start


(***************************************************************************)
(* generate_stability_images (main.py) and generate_email_html             *)
(* (utils/html_utils.py) on the ContentElement list                        *)
(*                                                                         *)
(* An element's content is "text" for a heading or a paragraph; for an     *)
(* image_description it is "prompt" until generate_stability_images        *)
(* replaces it by the image id, the number n of "generated_image_n".       *)
(***************************************************************************)
MaxElements == 3

ElementTypes == {"heading", "paragraph", "image_description"}

Element(type) ==
    [type |-> type, content |-> IF type = "image_description" THEN "prompt" ELSE "text"]

ImageElements(es) == {i \in 1..Len(es) : es[i].type = "image_description"}

\* image_counter when element i is reached: one more than the image
\* descriptions before it
ImageId(es, i) == Cardinality({j \in ImageElements(es) : j < i}) + 1

InitRender ==
    /\ mode = "render"
    /\ \E n \in 0..MaxElements : \E types \in [1..n -> ElementTypes] :
          newsletter_elements = [i \in 1..n |-> Element(types[i])]
    /\ gen_fails \in SUBSET ImageElements(newsletter_elements)
    /\ image_paths = {}
    /\ html_imgs = <<>>
    /\ render_pc = "images"
    /\ LimitIdle
    /\ TimeIdle
    /\ ContentIdle
    /\ MailIdle
    /\ MainIdle
    /\ BackoffIdle
    /\ SourceIdle
    /\ SendIdle
    /\ TavilyIdle
    /\ ParseIdle

\* for each image_description: on success image_paths[image_id] = image_path
\* and element.content = image_id; the except clause only logs
generate_stability_images ==
    /\ mode = "render"
    /\ render_pc = "images"
    /\ image_paths' = {ImageId(newsletter_elements, i) :
                          i \in ImageElements(newsletter_elements) \ gen_fails}
    /\ newsletter_elements' =
          [i \in 1..Len(newsletter_elements) |->
              IF i \in ImageElements(newsletter_elements) \ gen_fails
              THEN [newsletter_elements[i] EXCEPT !.content = ImageId(newsletter_elements, i)]
              ELSE newsletter_elements[i]]
    /\ render_pc' = "html"
    /\ UNCHANGED <<mode, gen_fails, html_imgs>>
    /\ UNCHANGED <<lim_vars, time_vars, agg_vars, mail_vars, main_vars, backoff_vars,
                   source_vars, send_vars, tavily_vars, parse_vars>>

\* the <img src="cid:{element.content}"> tags _generate_legacy_html emits for
\* the elements from index i on
RECURSIVE LegacyImgs(_, _)
LegacyImgs(es, i) ==
    IF i > Len(es) THEN <<>>
    ELSE (IF es[i].type = "image_description"
          THEN <<[elem |-> i, cid |-> es[i].content]>>
          ELSE <<>>) \o LegacyImgs(es, i + 1)

\* generate_email_html(template, newsletter_elements, image_paths), which
\* takes the legacy branch for a list of ContentElement
generate_email_html ==
    /\ mode = "render"
    /\ render_pc = "html"
    /\ html_imgs' = LegacyImgs(newsletter_elements, 1)
    /\ render_pc' = "done"
    /\ UNCHANGED <<mode, newsletter_elements, gen_fails, image_paths>>
    /\ UNCHANGED <<lim_vars, time_vars, agg_vars, mail_vars, main_vars, backoff_vars,
                   source_vars, send_vars, tavily_vars, parse_vars>>

\* C25: for every image element, the rendered HTML holds an image reference
\* (cid) for it if and only if an image was generated for it and is among
\* the images handed to send_email for attachment.
C25_CidIffGenerated ==
    render_pc = "done" =>
        \A i \in ImageElements(newsletter_elements) :
            (\E k \in 1..Len(html_imgs) : html_imgs[k].elem = i)
            <=> (/\ i \notin gen_fails
                 /\ ImageId(newsletter_elements, i) \in image_paths)


(***************************************************************************)
(* Runs of main on consecutive calendar days: each run resolves its window *)
(* from the wall clock at the time it executes                             *)
(* (get_content_collection_timeframe, utils/api_utils.py).                 *)
(***************************************************************************)
MaxDays == 3

\* the hours of the day a run may execute at: midnight, around the cutoff,
\* and late evening
RunHours == {0, CutoffHour - 1, CutoffHour, CutoffHour + 1, HoursPerDay - 1}

RunRecord(t) ==
    LET w == get_content_collection_timeframe(t)
    IN  [who |-> "run", at |-> t, start |-> w.start, end |-> w.end]

InitDaily ==
    /\ mode = "daily"
    /\ \E d \in DaysPerWeek..(2 * DaysPerWeek - 1), h \in RunHours :
          now = d * HoursPerDay + h
    /\ ticks = 0
    /\ calls = <<RunRecord(now)>>
    /\ tav_pc = "idle"
    /\ LimitIdle
    /\ ContentIdle
    /\ MailIdle
    /\ MainIdle
    /\ BackoffIdle
    /\ SourceIdle
    /\ SendIdle
    /\ TavilyIdle
    /\ RenderIdle
    /\ ParseIdle

\* the run of the next calendar day, at any of the hours
daily_run ==
    /\ mode = "daily"
    /\ Len(calls) < MaxDays
    /\ \E h \in RunHours :
          /\ now' = (now \div HoursPerDay + 1) * HoursPerDay + h
          /\ calls' = Append(calls, RunRecord(now'))
    /\ UNCHANGED <<mode, ticks, tav_pc>>
    /\ UNCHANGED <<lim_vars, agg_vars, mail_vars, main_vars, backoff_vars, source_vars,
                   send_vars, tavily_vars, render_vars, parse_vars>>

\* C27: over runs on consecutive calendar days, every instant t from the
\* first window's start to the end of the last but one window lies inside the
\* window of a run that executes at or after t, and each window starts no
\* later than the previous window's end.
C27_NoInstantMissed ==
    mode = "daily" =>
        /\ \A i \in 1..(Len(calls) - 1) : calls[i + 1].start <= calls[i].end
        /\ Len(calls) >= 2 =>
              \A t \in calls[1].start..calls[Len(calls) - 1].end :
                  \E i \in 1..Len(calls) :
                      /\ calls[i].start <= t
                      /\ t <= calls[i].end
                      /\ t <= calls[i].at


(***************************************************************************)
(* call_claude_parse_with_backoff (utils/api_utils.py): the API call goes  *)
(* through call_api_with_backoff with its default arguments, and the       *)
(* response it returns is then read, cleaned of code fences, parsed and    *)
(* validated.                                                              *)
(***************************************************************************)
MAX_RETRIES == 5

INITIAL_RETRY_DELAY == 1

\* what an API response's content may be: no content block at all, a JSON
\* text of the response model, the same inside ``` fences, a text that is
\* not JSON, and a JSON text that does not fit the response model
ResponseKinds == {"no_content", "json", "fenced_json", "not_json", "wrong_shape"}

\* lines 276-284: the opening and the closing ``` line are removed
StripFences(kind) == IF kind = "fenced_json" THEN "json" ELSE kind

\* lines 273, 287-296: response.content[0].text raises without a content
\* block; json.loads raises on a text that is not JSON, model_validate on
\* one that does not fit
ParseRaises(kind) == StripFences(kind) # "json"

AfterParseFailureRetry == [backoff_pc |-> "loop", parse_pc |-> "call"]

\* the exception leaves call_claude_parse_with_backoff: nothing around lines
\* 273-296 catches it without re-raising
AfterParseFailure == [backoff_pc |-> "returned", parse_pc |-> "raised"]

InitParse ==
    /\ mode = "parse"
    /\ max_retries = MAX_RETRIES
    /\ initial_retry_delay = INITIAL_RETRY_DELAY
    /\ max_retry_delay = MAX_RETRY_DELAY
    /\ retry_count = 0
    /\ attempts = <<>>
    /\ jitter = 0
    /\ sleeps = <<>>
    /\ backoff_pc = "loop"
    /\ response_kind = "none"
    /\ parse_pc = "call"
    /\ LimitIdle
    /\ TimeIdle
    /\ ContentIdle
    /\ MailIdle
    /\ MainIdle
    /\ SourceIdle
    /\ SendIdle
    /\ TavilyIdle
    /\ RenderIdle

\* lines 272-311: call_api_with_backoff returned a response
parse_response ==
    /\ mode = "parse"
    /\ parse_pc = "call"
    /\ backoff_pc = "returned"
    /\ \E kind \in ResponseKinds :
          /\ response_kind' = kind
          /\ IF ParseRaises(kind)
             THEN /\ backoff_pc' = AfterParseFailure.backoff_pc
                  /\ parse_pc' = AfterParseFailure.parse_pc
             ELSE /\ parse_pc' = "returned"
                  /\ UNCHANGED backoff_pc
    /\ UNCHANGED <<mode, max_retries, initial_retry_delay, max_retry_delay, retry_count,
                   attempts, jitter, sleeps>>
    /\ UNCHANGED <<lim_vars, time_vars, agg_vars, mail_vars, main_vars, source_vars,
                   send_vars, tavily_vars, render_vars>>

\* lines 267-270: call_api_with_backoff raised after its last failure
parse_api_raised ==
    /\ mode = "parse"
    /\ parse_pc = "call"
    /\ backoff_pc = "raised"
    /\ parse_pc' = "raised"
    /\ UNCHANGED <<mode, backoff_vars, response_kind>>
    /\ UNCHANGED <<lim_vars, time_vars, agg_vars, mail_vars, main_vars, source_vars,
                   send_vars, tavily_vars, render_vars>>

\* C30: only failures of the API call are retried: an invocation that
\* returned a response is the last one, no sleep follows it, and a response
\* that is not valid JSON or does not fit the response model makes the
\* function raise.
C30_ParseFailureNotRetried ==
    mode = "parse" =>
        /\ \A i \in 1..Len(attempts) : attempts[i] = "ok" => i = Len(attempts)
        /\ \A k \in 1..Len(sleeps) : attempts[sleeps[k].after] = "fail"
        /\ response_kind \in {"not_json", "wrong_shape"} =>
              /\ parse_pc = "raised"
              /\ backoff_pc = "returned"
        /\ response_kind # "none" => attempts[Len(attempts)] = "ok"

C30_Witness ==
    /\ parse_pc = "raised"
    /\ response_kind = "not_json"
    /\ Len(attempts) >= 2
    /\ sleeps # <<>>

vars == <<mode, lim_vars, time_vars, agg_vars, mail_vars, main_vars, backoff_vars,
          source_vars,
          send_vars,
          tavily_vars,
          render_vars,
          parse_vars>>

NextLimit == limit_content_by_tokens
SpecLimit == InitLimit /\ [][NextLimit]_vars

NextRelimit == limit_content_by_tokens \/ limit_again
SpecRelimit == InitRelimit /\ [][NextRelimit]_vars

NextContent == get_content
SpecContent == InitContent /\ [][NextContent]_vars

NextMail == mail_open \/ mail_search \/ mail_process_email \/ mail_logout_return
SpecMail == InitMail /\ [][NextMail]_vars

NextMain == main_get_content \/ main_llm \/ main_newsletter \/ main_charts \/ main_send
SpecMain == InitMain /\ [][NextMain]_vars

NextBackoff == backoff_attempt \/ backoff_exceeded
\* api_call() returns or raises and time.sleep returns, so the loop goes on
SpecBackoff == InitBackoff /\ [][NextBackoff]_vars /\ WF_vars(NextBackoff)

NextSource == source_call
SpecSource == InitSource /\ [][NextSource]_vars

NextTime == Tick \/ EmailResolvesWindow \/ TavilySearchDays \/ TavilyResolvesWindow
SpecTime == InitTime /\ [][NextTime]_vars

NextSend == send_build \/ smtp_connect \/ smtp_starttls \/ smtp_login \/ smtp_sendmail
              \/ smtp_quit_return \/ main_after_send
SpecSend == InitSend /\ [][NextSend]_vars

NextTavily == tavily_open \/ tavily_query \/ tavily_return
SpecTavily == InitTavily /\ [][NextTavily]_vars

NextRender == generate_stability_images \/ generate_email_html
SpecRender == InitRender /\ [][NextRender]_vars

NextDaily == daily_run
SpecDaily == InitDaily /\ [][NextDaily]_vars

NextParse == backoff_attempt \/ parse_response \/ parse_api_raised
SpecParse == InitParse /\ [][NextParse]_vars

Init == InitLimit \/ InitContent \/ InitTime \/ InitMail \/ InitMain \/ InitBackoff \/ InitSource
          \/ InitRelimit \/ InitSend \/ InitTavily
          \/ InitRender \/ InitDaily \/ InitParse
Next == NextLimit \/ NextContent \/ NextTime \/ NextMail \/ NextMain \/ NextBackoff \/ NextSource
          \/ NextRelimit \/ NextSend \/ NextTavily
          \/ NextRender \/ NextDaily \/ NextParse
Spec == Init /\ [][Next]_vars

====
